---- MODULE Spec2Model ----
(***************************************************************************)
(* Model of the bun many-to-many demo programs of src/main.go.             *)
(*                                                                         *)
(* The file holds two variants of the same program:                        *)
(*   variant 1 (lines 1-199):   library-native m2m relation                *)
(*   variant 2 (lines 201-445): has-many through the junction table plus   *)
(*                              the manual flattening step PostQuery       *)
(* Both create three tables, then run one writer goroutine (InsertQuery)   *)
(* and two reader goroutines (selectUsingHasMany, selectUsingM2M, ten      *)
(* calls each) against one shared in-memory database, and wait for them.   *)
(*                                                                         *)
(* The database is modelled by the rows of its tables.  A statement sent   *)
(* to the database is one atomic step.  A relation-hydrating Scan is two   *)
(* statements (the base select, then the select of the related rows), so   *)
(* the writer can act between them.  Every statement can also fail with an *)
(* error of the database; the code panics on it, which ends the process.   *)
(*                                                                         *)
(* What the library does is taken from its contract: a Scan into a slice   *)
(* returns no error on zero rows, a Scan into one struct returns           *)
(* sql.ErrNoRows on zero rows and then selects no relation, and a select   *)
(* without ORDER BY may return its rows in any order.  An unrecovered      *)
(* panic of any goroutine ends the whole process, so no step follows it.   *)
(*                                                                         *)
(* Definitions introduced as "faulty:" are deliberately wrong versions of  *)
(* the definition that follows them; the properties at the end are shown   *)
(* to tell the two apart.                                                  *)
(***************************************************************************)
EXTENDS Integers, Sequences, FiniteSets, TLC

VARIABLES
    variant,    \* which of the two programs of src/main.go runs: 1 or 2
    db,         \* table name -> set of rows, for the tables created so far
    mpc,        \* position of main: "create", "wait", "done"
    schemaIdx,  \* createSchema: index of the next model to create a table for
    merr,       \* main: err of createSchema
    wg,         \* sync.WaitGroup counter
    done,       \* the goroutines that have returned
    panicked,   \* the goroutine whose panic ended the process, or "none"
    widx,       \* InsertQuery: number of values inserted so far
    werr,       \* writer: err of InsertQuery
    i1,         \* reader 1: completed calls of selectUsingHasMany
    err1,       \* reader 1: err of the last Scan
    out1,       \* reader 1: the row count last printed (0 before any print)
    i2,         \* reader 2: completed calls of selectUsingM2M
    pc2,        \* reader 2: position inside selectUsingM2M
    err2,       \* reader 2: err of the last Scan
    order,      \* reader 2: the local variable order (*OrderM2M)
    item,       \* reader 2: the local variable item (*ItemM2M)
    out2,       \* reader 2: the line last printed
    calls       \* PostQuery harness: number of PostQuery calls made

vars == <<variant, db, mpc, schemaIdx, merr, wg, done, panicked, widx, werr,
          i1, err1, out1, i2, pc2, err2, order, item, out2, calls>>

mainVars == <<mpc, schemaIdx, merr>>
writerVars == <<widx, werr>>
reader1Vars == <<i1, err1, out1>>
reader2Vars == <<i2, pc2, err2, order, item, out2>>

----------------------------------------------------------------------------
(* Bounds of the PostQuery harness *)

\* longest ItemsM2M / OrdersM2M list PostQuery is tried on
MaxRows == 3
\* largest id of a related Item / Order in those lists
MaxID == 2
\* PostQuery calls per object
MaxCalls == 2

(* Program constants *)

\* `for range 10` of both reader goroutines
Iterations == 10

\* faulty: wg.Add(2) for three goroutines
WgAddShort == 1 + 1
\* wg.Add(3)
WgAdd == 3

----------------------------------------------------------------------------
(* Go values *)

\* a nil slice and a non-nil slice
NilList == [isNil |-> TRUE, elems |-> <<>>]
List(s) == [isNil |-> FALSE, elems |-> s]

\* a nil pointer and a pointer to a struct with the given ID
NilPtr == [isNil |-> TRUE, ID |-> 0]
Ptr(id) == [isNil |-> FALSE, ID |-> id]

\* new(OrderM2M), new(ItemM2M): the zero value
NewOrderM2M == [ID |-> 0, ItemsM2M |-> <<>>, Items |-> NilList]
NewItemM2M == [ID |-> 0, OrdersM2M |-> <<>>, Orders |-> NilList]

\* an OrderToItemM2M row with its belongs-to pointers
JRow(o, i, op, ip) == [OrderID |-> o, ItemID |-> i, Order |-> op, Item |-> ip]

Range(s) == {s[k] : k \in 1..Len(s)}

----------------------------------------------------------------------------
(* The database: tables, inserts and the select statements issued *)

\* createSchema: the tables of models, in order
models == <<"orders", "items", "order_to_items">>

\* faulty: the junction rows inserted before the rows they point to
valuesJunctionFirst ==
    << [table |-> "order_to_items", row |-> [OrderID |-> 1, ItemID |-> 1]],
       [table |-> "order_to_items", row |-> [OrderID |-> 1, ItemID |-> 2]],
       [table |-> "items", row |-> [ID |-> 1, OrderID |-> 0]],
       [table |-> "items", row |-> [ID |-> 2, OrderID |-> 0]],
       [table |-> "orders", row |-> [ID |-> 1, ItemID |-> 0]] >>
\* faulty: a second Item of id 3
valuesItemThree ==
    << [table |-> "items", row |-> [ID |-> 1, OrderID |-> 0]],
       [table |-> "items", row |-> [ID |-> 3, OrderID |-> 0]],
       [table |-> "orders", row |-> [ID |-> 1, ItemID |-> 0]],
       [table |-> "order_to_items", row |-> [OrderID |-> 1, ItemID |-> 1]],
       [table |-> "order_to_items", row |-> [OrderID |-> 1, ItemID |-> 3]] >>
\* InsertQuery: the rows of values with their tables, in order
values ==
    << [table |-> "items", row |-> [ID |-> 1, OrderID |-> 0]],
       [table |-> "items", row |-> [ID |-> 2, OrderID |-> 0]],
       [table |-> "orders", row |-> [ID |-> 1, ItemID |-> 0]],
       [table |-> "order_to_items", row |-> [OrderID |-> 1, ItemID |-> 1]],
       [table |-> "order_to_items", row |-> [OrderID |-> 1, ItemID |-> 2]] >>

\* the rows of a table (none while the table does not exist)
Rows(t) == IF t \in DOMAIN db THEN db[t] ELSE {}

\* the primary key of a row: (order_id, item_id) for the junction, id otherwise
PK(t, r) == IF t = "order_to_items" THEN <<r.OrderID, r.ItemID>> ELSE <<r.ID>>

\* an insert the database must refuse: no such table, or the key is taken
Refused(v) ==
    \/ v.table \notin DOMAIN db
    \/ \E r \in db[v.table] : PK(v.table, r) = PK(v.table, v.row)

\* the ids of a set of rows, ascending and descending
RECURSIVE Asc(_)
Asc(S) ==
    IF S = {} THEN <<>>
    ELSE LET m == CHOOSE x \in S : \A y \in S : x <= y
         IN  <<m>> \o Asc(S \ {m})

RECURSIVE Desc(_)
Desc(S) ==
    IF S = {} THEN <<>>
    ELSE LET m == CHOOSE x \in S : \A y \in S : x >= y
         IN  <<m>> \o Desc(S \ {m})

\* the orders in which a select without ORDER BY may return the rows S
AnyOrder(S) ==
    {s \in [1..Cardinality(S) -> S] : \A a, b \in 1..Cardinality(S) : a # b => s[a] # s[b]}

\* faulty: the joins without their ON conditions
JoinRowsCross ==
    {<<j, o, i>> \in Rows("order_to_items") \X Rows("orders") \X Rows("items") : TRUE}
\* selectUsingHasMany: order_to_items JOIN orders ON orders.id = order_id
\* JOIN items ON items.id = item_id
JoinRows ==
    {<<j, o, i>> \in Rows("order_to_items") \X Rows("orders") \X Rows("items") :
        o.ID = j.OrderID /\ i.ID = j.ItemID}

\* a Scan into one struct (LIMIT 1): no row is sql.ErrNoRows
ScanOne(ids) ==
    IF ids = <<>> THEN [err |-> "norows", ID |-> 0] ELSE [err |-> "nil", ID |-> ids[1]]

\* the base select of each of the three queries of selectUsingM2M: the ids
\* in the orders the statement may return them (the second has no ORDER BY)
BaseIds(q) ==
    CASE q = 1 -> {Asc({o.ID : o \in Rows("orders")})}
      [] q = 2 -> AnyOrder({o.ID : o \in Rows("orders")})
      [] q = 3 -> {Asc({i.ID : i \in Rows("items")})}

\* faulty: `err != nil`, sql.ErrNoRows not let through
FatalStrict(err) == err # "nil"
\* `err != nil && !errors.Is(err, sql.ErrNoRows)`: the errors selectUsingM2M returns
Fatal(err) == err # "nil" /\ err # "norows"

\* faulty: the relation joined on the other column of the junction table
RelRowsWrongColumn(col, id) ==
    {j \in Rows("order_to_items") : j[IF col = "OrderID" THEN "ItemID" ELSE "OrderID"] = id}
\* faulty: the LIMIT 1 of the base select applied to the relation as well
RelRowsLimitOne(col, id) ==
    LET all == {j \in Rows("order_to_items") : j[col] = id}
    IN  IF all = {} THEN {} ELSE {CHOOSE j \in all : TRUE}
\* the junction rows whose column col holds id
RelRows(col, id) == {j \in Rows("order_to_items") : j[col] = id}

\* faulty: every Item, linked to the Order or not
ItemsOfUnlinked(oid) == {i.ID : i \in Rows("items")}
\* variant 1, m2m:order_to_items,join:Order=Item: the ids of the Items joined
\* to the junction rows of an Order
ItemsOf(oid) ==
    {j.ItemID : j \in RelRows("OrderID", oid)} \cap {i.ID : i \in Rows("items")}

\* variant 1, m2m:order_to_items,join:Item=Order: the ids of the Orders joined
\* to the junction rows of an Item
OrdersOf(iid) ==
    {j.OrderID : j \in RelRows("ItemID", iid)} \cap {o.ID : o \in Rows("orders")}

\* variant 2, rel:has-many,join:id=order_id with ItemsM2M.Item: the junction
\* rows of an Order, each with its Item when the items table holds it
ItemsM2MOf(oid) ==
    {JRow(j.OrderID, j.ItemID, NilPtr,
          IF \E i \in Rows("items") : i.ID = j.ItemID THEN Ptr(j.ItemID) ELSE NilPtr) :
        j \in RelRows("OrderID", oid)}

\* variant 2, rel:has-many,join:id=item_id with OrdersM2M.Order
OrdersM2MOf(iid) ==
    {JRow(j.OrderID, j.ItemID,
          IF \E o \in Rows("orders") : o.ID = j.OrderID THEN Ptr(j.OrderID) ELSE NilPtr,
          NilPtr) :
        j \in RelRows("ItemID", iid)}

----------------------------------------------------------------------------
(* PostQuery (variant 2) *)

\* the loop `for _, item := range o.ItemsM2M`, appending *item.Item to acc
RECURSIVE AppendItems(_, _)
AppendItems(acc, rows) ==
    IF rows = <<>> THEN acc
    ELSE AppendItems(IF Head(rows).Item.isNil THEN acc ELSE Append(acc, Head(rows).Item.ID),
                     Tail(rows))

\* the loop `for _, order := range i.OrdersM2M`, appending *order.Order to acc
RECURSIVE AppendOrders(_, _)
AppendOrders(acc, rows) ==
    IF rows = <<>> THEN acc
    ELSE AppendOrders(IF Head(rows).Order.isNil THEN acc ELSE Append(acc, Head(rows).Order.ID),
                      Tail(rows))

\* faulty: PostQuery without `o.Items = make([]ItemM2M, 0)`
OrderPostQueryNoReset(o) ==
    [o EXCEPT !.Items = List(AppendItems(o.Items.elems, o.ItemsM2M))]
\* func (o *OrderM2M) PostQuery()
OrderPostQuery(o) ==
    [o EXCEPT !.Items =
        IF Len(o.ItemsM2M) > 0 THEN List(AppendItems(<<>>, o.ItemsM2M)) ELSE List(<<>>)]

\* func (i *ItemM2M) PostQuery()
ItemPostQuery(i) ==
    [i EXCEPT !.Orders =
        IF Len(i.OrdersM2M) > 0 THEN List(AppendOrders(<<>>, i.OrdersM2M)) ELSE List(<<>>)]

----------------------------------------------------------------------------
(* The program *)

EmptyDB == [t \in {} |-> {}]
NoOutput == [kind |-> "none", id |-> 0, related |-> <<>>]

Init ==
    /\ variant \in {1, 2}
    /\ db = EmptyDB
    /\ mpc = "create"
    /\ schemaIdx = 0
    /\ merr = "nil"
    /\ wg = 0
    /\ done = {}
    /\ panicked = "none"
    /\ widx = 0
    /\ werr = "nil"
    /\ i1 = 0
    /\ err1 = "nil"
    /\ out1 = 0
    /\ i2 = 0
    /\ pc2 = [q |-> 1, step |-> "base"]
    /\ err2 = "nil"
    /\ order = NewOrderM2M
    /\ item = NewItemM2M
    /\ out2 = NoOutput
    /\ calls = 0

\* a goroutine started by main that has neither returned nor seen the process end
Running(g) == mpc = "wait" /\ panicked = "none" /\ g \notin done

\* defer wg.Done() of a goroutine that returns
Return(g) ==
    /\ done' = done \cup {g}
    /\ wg' = wg - 1

(* main *)

\* createSchema: one CREATE TABLE succeeds
CreateTable ==
    /\ mpc = "create" /\ panicked = "none"
    /\ schemaIdx < Len(models)
    /\ db' = (models[schemaIdx + 1] :> {}) @@ db
    /\ schemaIdx' = schemaIdx + 1
    /\ UNCHANGED <<variant, mpc, merr, wg, done, panicked, writerVars, reader1Vars,
                   reader2Vars, calls>>

\* createSchema: one CREATE TABLE fails, createSchema returns err, main panics
CreateTableFail ==
    /\ mpc = "create" /\ panicked = "none"
    /\ schemaIdx < Len(models)
    /\ merr' = "dberr"
    /\ panicked' = "main"
    /\ UNCHANGED <<variant, db, mpc, schemaIdx, wg, done, writerVars, reader1Vars,
                   reader2Vars, calls>>

\* wg.Add(3) and the three go statements
Launch ==
    /\ mpc = "create" /\ panicked = "none"
    /\ schemaIdx = Len(models)
    /\ wg' = wg + WgAdd
    /\ mpc' = "wait"
    /\ UNCHANGED <<variant, db, schemaIdx, merr, done, panicked, writerVars, reader1Vars,
                   reader2Vars, calls>>

\* wg.Wait() returns, main returns
MainReturn ==
    /\ mpc = "wait" /\ panicked = "none"
    /\ wg = 0
    /\ mpc' = "done"
    /\ UNCHANGED <<variant, db, schemaIdx, merr, wg, done, panicked, writerVars,
                   reader1Vars, reader2Vars, calls>>

(* the writer goroutine: InsertQuery *)

\* one insert of the loop succeeds
Insert ==
    /\ Running("writer")
    /\ widx < Len(values)
    /\ LET v == values[widx + 1]
       IN  /\ ~Refused(v)
           /\ db' = [db EXCEPT ![v.table] = @ \cup {v.row}]
    /\ widx' = widx + 1
    /\ UNCHANGED <<variant, mainVars, wg, done, panicked, werr, reader1Vars, reader2Vars,
                   calls>>

\* faulty: the error of an insert is kept but the loop goes on
InsertFailContinue ==
    /\ Running("writer")
    /\ widx < Len(values)
    /\ werr' = "dberr"
    /\ widx' = widx + 1
    /\ UNCHANGED <<variant, db, mainVars, wg, done, panicked, reader1Vars, reader2Vars,
                   calls>>
\* one insert fails: InsertQuery returns err at once and the goroutine panics
InsertFail ==
    /\ Running("writer")
    /\ widx < Len(values)
    /\ werr' = "dberr"
    /\ panicked' = "writer"
    /\ UNCHANGED <<variant, db, mainVars, wg, done, widx, reader1Vars, reader2Vars,
                   calls>>

\* InsertQuery returns nil after the last value
WriterReturn ==
    /\ Running("writer")
    /\ widx = Len(values)
    /\ Return("writer")
    /\ UNCHANGED <<variant, db, mainVars, panicked, writerVars, reader1Vars, reader2Vars,
                   calls>>

(* reader 1: ten calls of selectUsingHasMany *)

\* the joined select succeeds: a slice Scan has no sql.ErrNoRows
HasMany ==
    /\ Running("reader1")
    /\ i1 < Iterations
    /\ err1' = "nil"
    /\ out1' = Cardinality(JoinRows)
    /\ i1' = i1 + 1
    /\ UNCHANGED <<variant, db, mainVars, wg, done, panicked, writerVars, reader2Vars,
                   calls>>

\* the joined select fails: selectUsingHasMany returns err, the goroutine panics
HasManyFail ==
    /\ Running("reader1")
    /\ i1 < Iterations
    /\ err1' = "dberr"
    /\ panicked' = "reader1"
    /\ UNCHANGED <<variant, db, mainVars, wg, done, writerVars, i1, out1, reader2Vars,
                   calls>>

Reader1Return ==
    /\ Running("reader1")
    /\ i1 = Iterations
    /\ Return("reader1")
    /\ UNCHANGED <<variant, db, mainVars, panicked, writerVars, reader1Vars, reader2Vars,
                   calls>>

(* reader 2: ten calls of selectUsingM2M, three queries each *)

\* the line a query prints: the id and the related list of order or of item
Printed(q, o, it) ==
    IF q = 3
    THEN [kind |-> "Item", id |-> it.ID, related |-> it.Orders.elems]
    ELSE [kind |-> "Order", id |-> o.ID, related |-> o.Items.elems]

\* a query is over: print, then go to the next query or return nil
Finish(q, o, it) ==
    /\ order' = o
    /\ item' = it
    /\ out2' = Printed(q, o, it)
    /\ pc2' = [q |-> IF q = 3 THEN 1 ELSE q + 1, step |-> "base"]
    /\ i2' = IF q = 3 THEN i2 + 1 ELSE i2

\* Scan, first statement: the base select with LIMIT 1.  With a row the
\* relation is selected next; with sql.ErrNoRows the struct stays zero, the
\* error is let through and (variant 2) PostQuery runs on the zero struct.
M2MBase ==
    /\ Running("reader2")
    /\ i2 < Iterations
    /\ pc2.step = "base"
    /\ \E ids \in BaseIds(pc2.q) :
         LET q == pc2.q
             res == ScanOne(ids)
             o == IF q = 3 THEN order ELSE [NewOrderM2M EXCEPT !.ID = res.ID]
             it == IF q = 3 THEN [NewItemM2M EXCEPT !.ID = res.ID] ELSE item
         IN  /\ err2' = res.err
             /\ IF res.err = "nil"
                THEN /\ order' = o
                     /\ item' = it
                     /\ pc2' = [pc2 EXCEPT !.step = "rel"]
                     /\ UNCHANGED <<i2, out2, panicked>>
                ELSE IF Fatal(res.err)
                THEN /\ panicked' = "reader2"
                     /\ order' = o
                     /\ item' = it
                     /\ UNCHANGED <<i2, pc2, out2>>
                ELSE /\ Finish(q,
                               IF variant = 2 /\ q # 3 THEN OrderPostQuery(o) ELSE o,
                               IF variant = 2 /\ q = 3 THEN ItemPostQuery(it) ELSE it)
                     /\ UNCHANGED panicked
    /\ UNCHANGED <<variant, db, mainVars, wg, done, writerVars, reader1Vars, calls>>

\* the related ids of variant 1 in the order the m2m select returns them:
\* the second query orders the Items by item.id DESC
M2MRelated(q) ==
    CASE q = 1 -> AnyOrder(ItemsOf(order.ID))
      [] q = 2 -> {Desc(ItemsOf(order.ID))}
      [] q = 3 -> AnyOrder(OrdersOf(item.ID))

\* Scan, second statement: the select of the related rows of the row found.
\* Variant 1 fills Items / Orders; variant 2 fills ItemsM2M / OrdersM2M and
\* PostQuery flattens them.
M2MRel ==
    /\ Running("reader2")
    /\ i2 < Iterations
    /\ pc2.step = "rel"
    /\ LET q == pc2.q
       IN  IF variant = 1
           THEN \E ids \in M2MRelated(q) :
                  LET l == IF ids = <<>> THEN NilList ELSE List(ids)
                  IN  Finish(q,
                             IF q = 3 THEN order ELSE [order EXCEPT !.Items = l],
                             IF q = 3 THEN [item EXCEPT !.Orders = l] ELSE item)
           ELSE \E rows \in AnyOrder(IF q = 3 THEN OrdersM2MOf(item.ID)
                                              ELSE ItemsM2MOf(order.ID)) :
                  Finish(q,
                         IF q = 3 THEN order
                                  ELSE OrderPostQuery([order EXCEPT !.ItemsM2M = rows]),
                         IF q = 3 THEN ItemPostQuery([item EXCEPT !.OrdersM2M = rows])
                                  ELSE item)
    /\ err2' = "nil"
    /\ UNCHANGED <<variant, db, mainVars, wg, done, panicked, writerVars, reader1Vars,
                   calls>>

\* a statement of Scan fails: selectUsingM2M returns err, the goroutine panics
M2MFail ==
    /\ Running("reader2")
    /\ i2 < Iterations
    /\ err2' = "dberr"
    /\ Fatal("dberr")
    /\ panicked' = "reader2"
    /\ UNCHANGED <<variant, db, mainVars, wg, done, writerVars, reader1Vars, i2, pc2,
                   order, item, out2, calls>>

Reader2Return ==
    /\ Running("reader2")
    /\ i2 = Iterations
    /\ Return("reader2")
    /\ UNCHANGED <<variant, db, mainVars, panicked, writerVars, reader1Vars, reader2Vars,
                   calls>>

Main == CreateTable \/ CreateTableFail \/ Launch \/ MainReturn
Writer == Insert \/ InsertFail \/ WriterReturn
Reader1 == HasMany \/ HasManyFail \/ Reader1Return
Reader2 == M2MBase \/ M2MRel \/ M2MFail \/ Reader2Return

Next ==
    \/ CreateTable
    \/ CreateTableFail
    \/ Launch
    \/ MainReturn
    \/ Insert
    \/ InsertFail
    \/ WriterReturn
    \/ HasMany
    \/ HasManyFail
    \/ Reader1Return
    \/ M2MBase
    \/ M2MRel
    \/ M2MFail
    \/ Reader2Return

Spec == Init /\ [][Next]_vars

\* the Go scheduler runs every runnable goroutine
FairSpec ==
    /\ Init
    /\ [][Next]_vars
    /\ WF_vars(Main)
    /\ WF_vars(Writer)
    /\ WF_vars(Reader1)
    /\ WF_vars(Reader2)

----------------------------------------------------------------------------
(* PostQuery on arbitrary inputs: any list of junction rows of at most     *)
(* MaxRows rows, each with a nil or a non-nil related struct, called up to *)
(* MaxCalls times in a row.                                                *)

\* the junction rows with a nil or non-nil Item, and with a nil or non-nil Order
ItemRows == {JRow(1, k, NilPtr, p) : k \in 1..MaxID, p \in {NilPtr} \cup {Ptr(n) : n \in 1..MaxID}}
OrderRows == {JRow(k, 1, p, NilPtr) : k \in 1..MaxID, p \in {NilPtr} \cup {Ptr(n) : n \in 1..MaxID}}

SeqsUpTo(S, n) == UNION {[1..m -> S] : m \in 0..n}

InitPQ ==
    /\ variant = 2
    /\ db = EmptyDB
    /\ mpc = "postquery"
    /\ schemaIdx = 0
    /\ merr = "nil"
    /\ wg = 0
    /\ done = {}
    /\ panicked = "none"
    /\ widx = 0
    /\ werr = "nil"
    /\ i1 = 0
    /\ err1 = "nil"
    /\ out1 = 0
    /\ i2 = 0
    /\ pc2 = [q |-> 1, step |-> "base"]
    /\ err2 = "nil"
    /\ out2 = NoOutput
    /\ calls = 0
    /\ \/ /\ order \in {[ID |-> 1, ItemsM2M |-> rows, Items |-> NilList] :
                            rows \in SeqsUpTo(ItemRows, MaxRows)}
          /\ item = NewItemM2M
       \/ /\ item \in {[ID |-> 1, OrdersM2M |-> rows, Orders |-> NilList] :
                            rows \in SeqsUpTo(OrderRows, MaxRows)}
          /\ order = NewOrderM2M

\* order.PostQuery()
CallOrderPostQuery ==
    /\ mpc = "postquery"
    /\ calls < MaxCalls
    /\ order' = OrderPostQuery(order)
    /\ calls' = calls + 1
    /\ UNCHANGED <<variant, db, mainVars, wg, done, panicked, writerVars, reader1Vars,
                   i2, pc2, err2, item, out2>>

\* item.PostQuery()
CallItemPostQuery ==
    /\ mpc = "postquery"
    /\ calls < MaxCalls
    /\ item' = ItemPostQuery(item)
    /\ calls' = calls + 1
    /\ UNCHANGED <<variant, db, mainVars, wg, done, panicked, writerVars, reader1Vars,
                   i2, pc2, err2, order, out2>>

NextPQ ==
    \/ CallOrderPostQuery
    \/ CallItemPostQuery

SpecPQ == InitPQ /\ [][NextPQ]_vars

----------------------------------------------------------------------------
(* Properties *)

OrderIds == {o.ID : o \in Rows("orders")}
ItemIds == {i.ID : i \in Rows("items")}
Junction == {<<j.OrderID, j.ItemID>> : j \in Rows("order_to_items")}

\* C1: when InsertQuery has inserted all its values without error, the
\* database holds exactly Order 1, Items 1 and 2 and the junction rows
\* (1, 1) and (1, 2), whatever the readers did meanwhile.
C1_InsertedRows ==
    (widx = 5 /\ werr = "nil") =>
        /\ OrderIds = {1} /\ Cardinality(Rows("orders")) = 1
        /\ ItemIds = {1, 2} /\ Cardinality(Rows("items")) = 2
        /\ Junction = {<<1, 1>>, <<1, 2>>} /\ Cardinality(Rows("order_to_items")) = 2

C1_Witness ==
    /\ widx = 5 /\ werr = "nil" /\ "writer" \in done
    /\ i1 \in 1..(Iterations - 1)
    /\ i2 \in 1..(Iterations - 1)

\* C2: in every reachable state each junction row references an Order row
\* and an Item row that exist.
C2_JunctionReferencesExist ==
    \A j \in Rows("order_to_items") : j.OrderID \in OrderIds /\ j.ItemID \in ItemIds

C2_Witness ==
    /\ widx = 4
    /\ Junction = {<<1, 1>>}
    /\ i1 > 0

\* C3: every call of selectUsingHasMany prints a count of at most 2; exactly
\* 2 when the five inserts were completed before it, and 0 when no junction
\* row was inserted before it.
C3_JoinCount ==
    [][(i1' = i1 + 1) =>
          /\ out1' <= 2
          /\ (widx = 5 => out1' = 2)
          /\ (Junction = {} => out1' = 0)]_vars

C3_Witness == i1 >= 1 /\ out1 = 2 /\ widx = 5

\* C4: an Order select of selectUsingM2M issued after the five inserts finds
\* Order 1, and its relation select fills in exactly the Items 1 and 2.
C4_OrderItemsAfterInserts ==
    [][(widx = 5 /\ pc2.q \in {1, 2} /\ pc2' # pc2) =>
          IF pc2.step = "base"
          THEN pc2' = [pc2 EXCEPT !.step = "rel"] /\ order'.ID = 1
          ELSE /\ out2'.kind = "Order"
               /\ out2'.id = 1
               /\ Len(out2'.related) = 2
               /\ Range(out2'.related) = {1, 2}]_vars

C4_Witness ==
    /\ widx = 5
    /\ out2.kind = "Order" /\ out2.id = 1
    /\ Len(out2.related) = 2 /\ Range(out2.related) = {1, 2}

\* C5: the Item select of selectUsingM2M issued after the five inserts finds
\* the Item of lowest id, and its relation select fills in exactly Order 1.
C5_ItemOrdersAfterInserts ==
    [][(widx = 5 /\ pc2.q = 3 /\ pc2' # pc2) =>
          IF pc2.step = "base"
          THEN pc2' = [pc2 EXCEPT !.step = "rel"] /\ item'.ID = 1
          ELSE /\ out2'.kind = "Item"
               /\ out2'.id = 1
               /\ out2'.related = <<1>>]_vars

C5_Witness ==
    /\ widx = 5 /\ "writer" \in done
    /\ out2 = [kind |-> "Item", id |-> 1, related |-> <<1>>]

\* C6: a read query that finds no rows raises no error and does not end the
\* program: selectUsingM2M goes on past sql.ErrNoRows and prints id 0 with
\* an empty related list, selectUsingHasMany prints the count 0.
C6_NoRowsTolerated ==
    [][/\ (err2' = "norows" /\ (pc2' # pc2 \/ panicked' = "reader2")) =>
            /\ panicked' = "none"
            /\ pc2'.step = "base"
            /\ out2'.id = 0
            /\ out2'.related = <<>>
       /\ (i1' = i1 + 1 /\ Junction = {}) =>
            /\ panicked' = "none"
            /\ err1' = "nil"
            /\ out1' = 0]_vars

C6_Witness ==
    /\ err2 = "norows" /\ panicked = "none"
    /\ out2 = [kind |-> "Order", id |-> 0, related |-> <<>>]
    /\ i1 >= 1 /\ out1 = 0 /\ Junction = {}

\* C7: the three goroutines neither crash nor deadlock: unless a database
\* operation fails the program ends, the writer returns after five inserts,
\* each reader after ten calls, and main only after all three returned.
C7_AllTasksFinish ==
    /\ []("writer" \in done => widx = 5)
    /\ []("reader1" \in done => i1 = 10)
    /\ []("reader2" \in done => i2 = 10)
    /\ [](mpc = "done" => done = {"writer", "reader1", "reader2"})
    /\ <>(mpc = "done" \/ panicked # "none")

C7_Witness ==
    /\ mpc = "done" /\ panicked = "none"
    /\ widx = 5 /\ i1 = 10 /\ i2 = 10

\* C8: a database error other than "no rows" ends the program at once: the
\* goroutine that saw it panics, nothing is done after the panic, and main
\* never returns.
C8_ErrorAborts ==
    /\ []((merr = "dberr" \/ werr = "dberr" \/ err1 = "dberr" \/ err2 = "dberr")
            => panicked # "none")
    /\ [](panicked # "none" => mpc # "done")
    /\ [][panicked = "none"]_vars

C8_Witness ==
    /\ panicked = "writer" /\ werr = "dberr"
    /\ widx = 2
    /\ i1 > 0

\* the related ids PostQuery must produce: those of the rows whose related
\* struct is present, in the order of the rows
HasItem(r) == ~r.Item.isNil
HasOrder(r) == ~r.Order.isNil
PresentItems(rows) ==
    LET kept == SelectSeq(rows, HasItem) IN [k \in 1..Len(kept) |-> kept[k].Item.ID]
PresentOrders(rows) ==
    LET kept == SelectSeq(rows, HasOrder) IN [k \in 1..Len(kept) |-> kept[k].Order.ID]

\* C9: PostQuery sets Items (Orders) to the related structs of the junction
\* rows that have one, in order; the list is never nil and never longer than
\* the junction rows; ItemsM2M (OrdersM2M) is unchanged; a second call gives
\* the same list.
C9_PostQueryFlattens ==
    [][(calls' = calls + 1) =>
          \/ /\ item' = item
             /\ order'.ItemsM2M = order.ItemsM2M
             /\ order'.ID = order.ID
             /\ order'.Items = List(PresentItems(order.ItemsM2M))
             /\ Len(order'.Items.elems) <= Len(order.ItemsM2M)
             /\ (~order.Items.isNil => order'.Items = order.Items)
          \/ /\ order' = order
             /\ item'.OrdersM2M = item.OrdersM2M
             /\ item'.ID = item.ID
             /\ item'.Orders = List(PresentOrders(item.OrdersM2M))
             /\ Len(item'.Orders.elems) <= Len(item.OrdersM2M)
             /\ (~item.Orders.isNil => item'.Orders = item.Orders)]_vars

C9_Witness ==
    /\ calls = 2
    /\ Len(order.ItemsM2M) = 3
    /\ order.ItemsM2M[2].Item.isNil
    /\ order.Items = List(<<order.ItemsM2M[1].Item.ID, order.ItemsM2M[3].Item.ID>>)
    /\ item.Orders = NilList

\* C10: an Order line printed by selectUsingM2M is either id 0 without Items
\* or id 1 with Items among 1 and 2, each linked to Order 1 by a junction row.
C10_PrintedOrder ==
    out2.kind = "Order" =>
        \/ out2.id = 0 /\ out2.related = <<>>
        \/ /\ out2.id = 1
           /\ Range(out2.related) \subseteq {1, 2}
           /\ \A it \in Range(out2.related) : <<1, it>> \in Junction

C10_Witness ==
    /\ out2.kind = "Order" /\ out2.id = 1
    /\ Len(out2.related) = 1
    /\ widx = 5

====
